---- MODULE Spec2Model ----
(***************************************************************************)
(* Model of the submission analytics engine of the grading dashboard:      *)
(* the useMemo computation of the ResultsAnalytics component               *)
(* (client/src/components/results-analytics.tsx) and the helpers it calls. *)
(*                                                                         *)
(* Numbers.  A JavaScript number is modelled as a record                   *)
(*     [k |-> "fin" | "inf" | "ninf" | "nan", n |-> Int, d |-> Nat \ {0}]  *)
(* a finite value is the exact rational n/d; the three other kinds are the *)
(* IEEE values +Infinity, -Infinity and NaN that a division by zero        *)
(* produces.  Finite values are kept in lowest terms and finite arithmetic  *)
(* is exact (binary rounding error of the double format is not modelled).  *)
(***************************************************************************)
EXTENDS Integers, Sequences, FiniteSets, TLC

VARIABLES submissions, analytics, view, locals, overall, req, res, handlerRan,
          grades, storedSubmissions, assignments, gradingCriteria, lastCall, clock,
          criteriaCalls

vars == <<submissions, analytics, view, locals, overall, req, res, handlerRan,
          grades, storedSubmissions, assignments, gradingCriteria, lastCall, clock,
          criteriaCalls>>

clientVars == <<submissions, analytics, view, locals, overall>>

storeVars == <<grades, storedSubmissions, assignments, gradingCriteria, lastCall, clock,
               criteriaCalls>>

serverVars == <<req, res, handlerRan, storeVars>>

(***************************************************************************)
(* Bounds and input sets                                                   *)
(***************************************************************************)
\* longest submissions list when records may be malformed (maxScore <= 0)
MaxSubs == 3
\* longest submissions list when every grade has a positive maxScore
MaxGraded == 5
\* longest submissions list when percentages of odd and even tenths are mixed
MaxMixed == 4
\* longest submissions list shown on both result surfaces
MaxShown == 3

\* <<totalScore, maxScore>> pairs of well-formed grades:
\* 10%, 95%, 89.966..% (reported as 90.0), 100%
WellFormedGrades == {<<1, 10>>, <<19, 20>>, <<2699, 3000>>, <<10, 10>>}

\* grades whose maxScore is not positive: 0/0, 5/0, 3/(-10)
MalformedGrades == {<<0, 0>>, <<5, 0>>, <<3, -10>>}

NoGrade == [present |-> FALSE, totalScore |-> 0, maxScore |-> 0]

Grade(pair) == [present |-> TRUE, totalScore |-> pair[1], maxScore |-> pair[2]]

\* the records the submissions endpoint can deliver when callers keep the
\* engine's precondition (every grade has a positive maxScore)
WellFormedInputs ==
    {[isGraded |-> TRUE, grade |-> Grade(p)] : p \in WellFormedGrades}
        \cup {[isGraded |-> FALSE, grade |-> NoGrade]}

\* well-formed grades whose percentages mix odd and even tenths (10%, 95%,
\* 95.5%, 90.0%), so that the mean of two of them can fall between two tenths
MixedTenthGrades == {<<1, 10>>, <<19, 20>>, <<191, 200>>, <<2699, 3000>>}

MixedTenthInputs ==
    {[isGraded |-> TRUE, grade |-> Grade(p)] : p \in MixedTenthGrades}
        \cup {[isGraded |-> FALSE, grade |-> NoGrade]}

\* every shape the Submission interface admits: the isGraded flag and the
\* optional grade are independent, and maxScore is any number
SubmissionInputs ==
    {[isGraded |-> TRUE, grade |-> Grade(p)] :
        p \in {<<1, 10>>, <<2699, 3000>>, <<10, 10>>} \cup MalformedGrades}
        \cup {[isGraded |-> b, grade |-> NoGrade] : b \in BOOLEAN}
        \cup {[isGraded |-> FALSE, grade |-> Grade(<<1, 10>>)]}

(***************************************************************************)
(* IEEE-style arithmetic on modelled numbers                               *)
(***************************************************************************)
RECURSIVE GCD(_, _)
GCD(a, b) == IF b = 0 THEN a ELSE GCD(b, a % b)

\* the finite number n/d (d > 0), in lowest terms
Fin(n, d) ==
    LET g == GCD(IF n < 0 THEN -n ELSE n, d)
    IN  [k |-> "fin", n |-> n \div g, d |-> d \div g]

PosInf == [k |-> "inf", n |-> 0, d |-> 1]
NegInf == [k |-> "ninf", n |-> 0, d |-> 1]
NaN == [k |-> "nan", n |-> 0, d |-> 1]

IsFin(a) == a.k = "fin"

\* a / b for integer operands (JavaScript number division)
NumDiv(a, b) ==
    IF b > 0 THEN Fin(a, b)
    ELSE IF b < 0 THEN Fin(-a, -b)
    ELSE IF a > 0 THEN PosInf
    ELSE IF a < 0 THEN NegInf
    ELSE NaN

NumNeg(a) ==
    CASE a.k = "fin" -> Fin(-a.n, a.d)
      [] a.k = "inf" -> NegInf
      [] a.k = "ninf" -> PosInf
      [] OTHER -> NaN

NumAdd(a, b) ==
    IF a.k = "nan" \/ b.k = "nan" THEN NaN
    ELSE IF a.k = "fin" /\ b.k = "fin"
         THEN LET g == GCD(a.d, b.d)
              IN  Fin(a.n * (b.d \div g) + b.n * (a.d \div g), a.d * (b.d \div g))
    ELSE IF a.k = "fin" THEN b
    ELSE IF b.k = "fin" THEN a
    ELSE IF a.k = b.k THEN a
    ELSE NaN

NumSub(a, b) == NumAdd(a, NumNeg(b))

\* a * (p/q) for a positive rational factor p/q
NumScale(a, p, q) == IF a.k = "fin" THEN Fin(a.n * p, a.d * q) ELSE a

\* a * a
NumSquare(a) ==
    CASE a.k = "fin" -> Fin(a.n * a.n, a.d * a.d)
      [] a.k = "nan" -> NaN
      [] OTHER -> PosInf

\* a < b; every comparison with NaN is false
NumLT(a, b) ==
    /\ a.k # "nan" /\ b.k # "nan"
    /\ \/ a.k = "ninf" /\ b.k # "ninf"
       \/ a.k # "inf" /\ b.k = "inf"
       \/ a.k = "fin" /\ b.k = "fin" /\ a.n * b.d < b.n * a.d

NumGT(a, b) == NumLT(b, a)

\* a == b as numbers (false when either is NaN)
NumEQ(a, b) ==
    /\ a.k # "nan" /\ b.k # "nan"
    /\ \/ a.k = b.k /\ a.k # "fin"
       \/ a.k = "fin" /\ b.k = "fin" /\ a.n * b.d = b.n * a.d

NumGE(a, b) == NumGT(a, b) \/ NumEQ(a, b)

\* Math.round(x * 10) / 10: to the nearest tenth, halves towards +Infinity
RoundTenth(a) ==
    IF a.k = "fin" THEN Fin((20 * a.n + a.d) \div (2 * a.d), 10) ELSE a

\* Math.round(x) for a finite x >= 0, as an integer
RoundInt(a) == (2 * a.n + a.d) \div (2 * a.d)

(***************************************************************************)
(* Array.prototype.sort with a comparator                                  *)
(***************************************************************************)
\* sign of the value a comparator returns; a NaN result is treated as +0
CompareSign(diff) ==
    CASE diff.k = "nan" -> 0
      [] diff.k = "inf" -> 1
      [] diff.k = "ninf" -> -1
      [] OTHER -> IF diff.n > 0 THEN 1 ELSE IF diff.n < 0 THEN -1 ELSE 0

\* (a, b) => a - b   for dir = "asc",   (a, b) => b - a   for dir = "desc"
Comparator(dir, a, b) ==
    CompareSign(IF dir = "asc" THEN NumSub(a, b) ELSE NumSub(b, a))

\* the comparator is a consistent comparison function for the keys
\* (ECMAScript: otherwise the sort order is implementation-defined)
ConsistentComparator(keys, dir) ==
    \A i, j, l \in 1..Len(keys) :
        LET ij == Comparator(dir, keys[i], keys[j])
            jl == Comparator(dir, keys[j], keys[l])
            il == Comparator(dir, keys[i], keys[l])
        IN  /\ (ij = 0 /\ jl = 0) => il = 0
            /\ (ij < 0 /\ jl < 0) => il < 0
            /\ (ij > 0 /\ jl > 0) => il > 0

RECURSIVE InsertIndex(_, _, _, _)
\* put index x into the sorted index list, behind every index it does not
\* have to precede (stable)
InsertIndex(keys, dir, sorted, x) ==
    IF sorted = <<>> THEN <<x>>
    ELSE LET last == sorted[Len(sorted)]
         IN  IF Comparator(dir, keys[last], keys[x]) > 0
             THEN Append(InsertIndex(keys, dir, SubSeq(sorted, 1, Len(sorted) - 1), x), last)
             ELSE Append(sorted, x)

RECURSIVE StableOrder(_, _, _)
StableOrder(keys, dir, m) ==
    IF m = 0 THEN <<>>
    ELSE InsertIndex(keys, dir, StableOrder(keys, dir, m - 1), m)

\* the index orders a sort of the keys can produce: the stable order for a
\* consistent comparator, any permutation otherwise
SortOrders(keys, dir) ==
    IF ConsistentComparator(keys, dir)
    THEN {StableOrder(keys, dir, Len(keys))}
    ELSE Permutations(1..Len(keys))

Reorder(seq, order) == [i \in 1..Len(seq) |-> seq[order[i]]]

\* the copy left in the order it was passed in (the sort call dropped)
sortedCopy_Unsorted(numbers, order) == numbers

\* [...numbers].sort((a, b) => a - b), where `order` is the index order the
\* engine's sort produces for these numbers (one of SortOrders(numbers, "asc"))
sortedCopy(numbers, order) == Reorder(numbers, order)

(***************************************************************************)
(* Helpers of results-analytics.tsx                                        *)
(***************************************************************************)
getLetterGrade(percentage) ==
    IF NumGE(percentage, Fin(90, 1)) THEN "A"
    ELSE IF NumGE(percentage, Fin(80, 1)) THEN "B"
    ELSE IF NumGE(percentage, Fin(70, 1)) THEN "C"
    ELSE IF NumGE(percentage, Fin(60, 1)) THEN "D"
    ELSE "F"

\* the upper of the two central values for an even count, without averaging
getMedian_UpperMiddle(numbers, order) ==
    LET sorted == sortedCopy(numbers, order)
        mid == Len(sorted) \div 2
    IN  sorted[mid + 1]

getMedian(numbers, order) ==
    LET sorted == sortedCopy(numbers, order)
        mid == Len(sorted) \div 2
    IN  IF Len(sorted) % 2 = 0
        THEN NumScale(NumAdd(sorted[mid], sorted[mid + 1]), 1, 2)
        ELSE sorted[mid + 1]

\* the interpolation with its two weights swapped
getPercentile_SwappedWeights(numbers, percentile, order) ==
    LET sorted == sortedCopy(numbers, order)
        idxNum == percentile * (Len(sorted) - 1)
        lower == idxNum \div 100
        upper == IF idxNum % 100 = 0 THEN lower ELSE lower + 1
        weight == idxNum - 100 * lower
    IN  IF lower = upper THEN sorted[lower + 1]
        ELSE NumAdd(NumScale(sorted[lower + 1], weight, 100),
                    NumScale(sorted[upper + 1], 100 - weight, 100))

\* index = percentile/100 * (length - 1) is kept as the fraction idxNum / 100
getPercentile(numbers, percentile, order) ==
    LET sorted == sortedCopy(numbers, order)
        idxNum == percentile * (Len(sorted) - 1)
        lower == idxNum \div 100
        upper == IF idxNum % 100 = 0 THEN lower ELSE lower + 1
        weight == idxNum - 100 * lower
    IN  IF lower = upper THEN sorted[lower + 1]
        ELSE NumAdd(NumScale(sorted[lower + 1], 100 - weight, 100),
                    NumScale(sorted[upper + 1], weight, 100))

RECURSIVE SumFrom(_, _, _)
\* numbers.reduce((a, b) => a + b, init) over the elements from index i on
SumFrom(numbers, i, acc) ==
    IF i > Len(numbers) THEN acc
    ELSE SumFrom(numbers, i + 1, NumAdd(acc, numbers[i]))

RECURSIVE SquaresFrom(_, _, _, _)
\* numbers.reduce((sum, num) => sum + Math.pow(num - mean, 2), acc) from index i
SquaresFrom(numbers, mean, i, acc) ==
    IF i > Len(numbers) THEN acc
    ELSE SquaresFrom(numbers, mean, i + 1,
                     NumAdd(acc, NumSquare(NumSub(numbers[i], mean))))

\* the squares taken of the numbers themselves, the mean left out
getStandardDeviation_NoMean(numbers, mean) ==
    NumScale(SquaresFrom(numbers, Fin(0, 1), 1, Fin(0, 1)), 1, Len(numbers))

\* getStandardDeviation(numbers, mean).  The result is a square root, which
\* is irrational in general, so the model returns its square (the variance);
\* RoundTenthOfRoot takes the root when the report rounds it.
getStandardDeviation(numbers, mean) ==
    NumScale(SquaresFrom(numbers, mean, 1, Fin(0, 1)), 1, Len(numbers))

RECURSIVE RoundedRoot(_, _, _)
\* the largest k in lo..hi with (2k - 1)^2 <= bound
RoundedRoot(bound, lo, hi) ==
    IF lo = hi THEN lo
    ELSE LET k == (lo + hi + 1) \div 2
         IN  IF (2 * k - 1) * (2 * k - 1) <= bound
             THEN RoundedRoot(bound, k, hi)
             ELSE RoundedRoot(bound, lo, k - 1)

\* Math.round(stdDev * 10) / 10 for the stdDev whose square is the given
\* variance: k tenths with k - 1/2 <= 10 * sqrt(variance) < k + 1/2, that is
\* the largest k with (2k - 1)^2 <= 400 * variance
RoundTenthOfRoot(variance) ==
    IF variance.k = "fin"
    THEN LET bound == 400 * (variance.n \div variance.d)
                        + (400 * (variance.n % variance.d)) \div variance.d
         IN  Fin(RoundedRoot(bound, 0, 2000), 10)
    ELSE IF variance.k = "inf" THEN PosInf
    ELSE NaN

\* Math.min(...numbers) / Math.max(...numbers): NaN if any element is NaN
MathMin(numbers) ==
    IF \E i \in 1..Len(numbers) : numbers[i].k = "nan" THEN NaN
    ELSE numbers[CHOOSE i \in 1..Len(numbers) :
                    \A j \in 1..Len(numbers) : ~NumLT(numbers[j], numbers[i])]

MathMax(numbers) ==
    IF \E i \in 1..Len(numbers) : numbers[i].k = "nan" THEN NaN
    ELSE numbers[CHOOSE i \in 1..Len(numbers) :
                    \A j \in 1..Len(numbers) : ~NumGT(numbers[j], numbers[i])]

(***************************************************************************)
(* The useMemo computation of ResultsAnalytics                             *)
(***************************************************************************)
\* filter that looks at the grade only: submissions.filter(s => s.grade)
gradedSubmissions_GradeOnly(subs) ==
    SelectSeq(subs, LAMBDA s : s.grade.present)

\* filter that looks at the flag only: submissions.filter(s => s.isGraded)
gradedSubmissions_FlagOnly(subs) ==
    SelectSeq(subs, LAMBDA s : s.isGraded)

\* submissions.filter(s => s.isGraded && s.grade)
gradedSubmissions(subs) ==
    SelectSeq(subs, LAMBDA s : s.isGraded /\ s.grade.present)

\* the callback with the percentage left unrounded
scoreOf_Unrounded(s) ==
    LET percentage == NumScale(NumDiv(s.grade.totalScore, s.grade.maxScore), 100, 1)
    IN  [studentName |-> s.student.name,
         score |-> s.grade.totalScore,
         maxScore |-> s.grade.maxScore,
         percentage |-> percentage,
         grade |-> getLetterGrade(percentage)]

\* the callback of gradedSubmissions.map
scoreOf(s) ==
    LET percentage == NumScale(NumDiv(s.grade.totalScore, s.grade.maxScore), 100, 1)
    IN  [studentName |-> s.student.name,
         score |-> s.grade.totalScore,
         maxScore |-> s.grade.maxScore,
         percentage |-> RoundTenth(percentage),
         grade |-> getLetterGrade(percentage)]

mappedScores(graded) == [i \in 1..Len(graded) |-> scoreOf(graded[i])]

percentagesOf(scores) == [i \in 1..Len(scores) |-> scores[i].percentage]

\* scores.sort((a, b) => b.percentage - a.percentage), where `order` is the
\* index order the engine's sort produces
sortedScores(scores, order) == Reorder(scores, order)

\* the filter with the bounds included (<= and >= for < and >)
outliersOf_Inclusive(scores, q1, q3, iqr) ==
    SelectSeq(scores, LAMBDA s :
        \/ ~NumGT(s.percentage, NumSub(q1, NumScale(iqr, 3, 2)))
        \/ ~NumLT(s.percentage, NumAdd(q3, NumScale(iqr, 3, 2))))

\* the filter behind a guard that skips it when the IQR is zero
outliersOf_SkipZeroIqr(scores, q1, q3, iqr) ==
    IF NumEQ(iqr, Fin(0, 1)) THEN <<>>
    ELSE SelectSeq(scores, LAMBDA s :
            \/ NumLT(s.percentage, NumSub(q1, NumScale(iqr, 3, 2)))
            \/ NumGT(s.percentage, NumAdd(q3, NumScale(iqr, 3, 2))))

\* scores.filter(s => s.percentage < q1 - 1.5*iqr || s.percentage > q3 + 1.5*iqr)
outliersOf(scores, q1, q3, iqr) ==
    SelectSeq(scores, LAMBDA s :
        \/ NumLT(s.percentage, NumSub(q1, NumScale(iqr, 3, 2)))
        \/ NumGT(s.percentage, NumAdd(q3, NumScale(iqr, 3, 2))))

gradeDistributionOf(scores) ==
    [A |-> Len(SelectSeq(scores, LAMBDA s : NumGE(s.percentage, Fin(90, 1)))),
     B |-> Len(SelectSeq(scores, LAMBDA s :
                NumGE(s.percentage, Fin(80, 1)) /\ NumLT(s.percentage, Fin(90, 1)))),
     C |-> Len(SelectSeq(scores, LAMBDA s :
                NumGE(s.percentage, Fin(70, 1)) /\ NumLT(s.percentage, Fin(80, 1)))),
     D |-> Len(SelectSeq(scores, LAMBDA s :
                NumGE(s.percentage, Fin(60, 1)) /\ NumLT(s.percentage, Fin(70, 1)))),
     F |-> Len(SelectSeq(scores, LAMBDA s : NumLT(s.percentage, Fin(60, 1))))]

\* Array.from({ length: 10 }, (_, i) => ...): element i of the model is the
\* source's element i - 1
rangesOf(scores) ==
    [i \in 1..10 |->
        LET start == (i - 1) * 10
            end == start + 10
            count == Len(SelectSeq(scores, LAMBDA s :
                        NumGE(s.percentage, Fin(start, 1)) /\ NumLT(s.percentage, Fin(end, 1))))
        IN  [start |-> start, end |-> end, count |-> count,
             percentage |-> RoundInt(Fin(count * 100, Len(scores)))]]

\* the object the callback returns, for one outcome of the sorts
reportOf(subs, graded, scores, median, q1, q3) ==
    LET percentages == percentagesOf(scores)
        average == NumScale(SumFrom(percentages, 1, Fin(0, 1)), 1, Len(percentages))
        min == MathMin(percentages)
        max == MathMax(percentages)
        stdDev == getStandardDeviation(percentages, average)
        iqr == NumSub(q3, q1)
    IN  [scores |-> scores,
         average |-> RoundTenth(average),
         median |-> RoundTenth(median),
         min |-> RoundTenth(min),
         max |-> RoundTenth(max),
         stdDev |-> RoundTenthOfRoot(stdDev),
         outliers |-> outliersOf(scores, q1, q3, iqr),
         gradeDistribution |-> gradeDistributionOf(scores),
         ranges |-> rangesOf(scores),
         totalGraded |-> Len(graded),
         totalSubmissions |-> Len(subs)]

\* the unrounded median, q1 and q3 of the callback (its local values)
localsOf(median, q1, q3) == [median |-> median, q1 |-> q1, q3 |-> q3]

NoLocals == localsOf(NaN, NaN, NaN)

\* the ranking sort applied to the caller's array itself
submissionsAfter_SortedInPlace(props) ==
    LET keys == [i \in 1..Len(props) |->
                    IF props[i].isGraded /\ props[i].grade.present
                    THEN scoreOf(props[i]).percentage ELSE NegInf]
    IN  Reorder(props, StableOrder(keys, "desc", Len(props)))

\* props.submissions once the callback has returned: filter and map build new
\* arrays, the ranking sort works on the mapped array, and getMedian and
\* getPercentile sort spread copies, so the caller's array is as it was
submissionsAfter(props) == props

\* Math.round(x)
MathRound(a) == IF a.k = "fin" THEN Fin((2 * a.n + a.d) \div (2 * a.d), 1) ELSE a

\* getLetterGrade of overall-results-modal.tsx
overallGetLetterGrade(percentage) ==
    IF NumGE(percentage, Fin(90, 1)) THEN "A"
    ELSE IF NumGE(percentage, Fin(80, 1)) THEN "B"
    ELSE IF NumGE(percentage, Fin(70, 1)) THEN "C"
    ELSE IF NumGE(percentage, Fin(60, 1)) THEN "D"
    ELSE "F"

\* the callback of gradedSubmissions.map in OverallResultsModal
overallScoreOf(s) ==
    [studentName |-> s.student.name,
     score |-> s.grade.totalScore,
     maxScore |-> s.grade.maxScore,
     percentage |->
        MathRound(NumScale(NumDiv(s.grade.totalScore, s.grade.maxScore), 100, 1))]

\* a row of the ranking and of the CSV export: the score with the letter
\* getLetterGrade gives its percentage
overallRow(score) ==
    [studentName |-> score.studentName,
     score |-> score.score,
     maxScore |-> score.maxScore,
     percentage |-> score.percentage,
     letterGrade |-> overallGetLetterGrade(score.percentage)]

\* the modal before it is rendered
ModalClosed == [view |-> "closed", scores |-> <<>>]

\* OverallResultsModal rendered with the given props.submissions: the empty
\* state, or the rows of its ranking (and of exportResults) in ranked order
OverallResultsModal(props) ==
    LET graded == SelectSeq(props, LAMBDA s : s.isGraded /\ s.grade.present)
        scores == [i \in 1..Len(graded) |-> overallScoreOf(graded[i])]
    IN  IF Len(graded) = 0
        THEN overall' = [view |-> "empty", scores |-> <<>>]
        ELSE \E rank \in SortOrders(percentagesOf(scores), "desc") :
                overall' = [view |-> "results",
                            scores |-> [i \in 1..Len(scores) |-> overallRow(scores[rank[i]])]]

(***************************************************************************)
(* The store (MemStorage of storage.ts) and the routes that grade, post    *)
(* grades and report on an assignment, each request served to its end      *)
(***************************************************************************)
\* most requests served in one behaviour
MaxRequests == 4

\* assignment.maxPoints as the classroom sync stores it: null or an integer
Null == [isNull |-> TRUE, v |-> 0]

Points(v) == [isNull |-> FALSE, v |-> v]

MaxPointsValues == {Null, Points(0), Points(10), Points(-5)}

\* the ids a request can name: the synced submissions and one that is not stored
SyncedSubmissionIds == {"s1", "s2"}

RequestIds == SyncedSubmissionIds \cup {"s9"}

\* randomUUID(): the n-th id it hands out
Uuid(n) == <<"u1", "u2", "u3", "u4", "u5">>[n]

\* the submissions map after a sync of one assignment with two turned-in
\* submissions: s1 has one attached file, s2 has two
SyncedSubmissions ==
    [s \in SyncedSubmissionIds |->
        [id |-> s, assignmentId |-> "a1", isGraded |-> FALSE, status |-> "ungraded",
         attachedFiles |-> IF s = "s1" THEN 1 ELSE 2]]

\* the result of a lookup: <<>> for undefined, <<record>> otherwise
getSubmission(id) ==
    IF id \in DOMAIN storedSubmissions THEN <<storedSubmissions[id]>> ELSE <<>>

getAssignment(id) ==
    IF id \in DOMAIN assignments THEN <<assignments[id]>> ELSE <<>>

getGradingCriteria(assignmentId) ==
    SelectSeq(gradingCriteria, LAMBDA c : c.assignmentId = assignmentId)

getGrades(assignmentId) ==
    SelectSeq(grades, LAMBDA g : g.assignmentId = assignmentId)

\* Array.from(this.grades.values()).find(g => g.submissionId === submissionId)
getGrade(submissionId) ==
    LET found == SelectSeq(grades, LAMBDA g : g.submissionId = submissionId)
    IN  IF found = <<>> THEN <<>> ELSE <<found[1]>>

\* this.grades.set(grade.id, grade): in place for a known key, else appended
gradesSet(map, grade) ==
    IF \E i \in 1..Len(map) : map[i].id = grade.id
    THEN [i \in 1..Len(map) |-> IF map[i].id = grade.id THEN grade ELSE map[i]]
    ELSE Append(map, grade)

\* upsertGrade with a fresh id for every call (id: randomUUID())
upsertGrade_AlwaysNewId(gradeData, uuid, now) ==
    LET existing == getGrade(gradeData.submissionId)
        grade == [id |-> uuid,
                  submissionId |-> gradeData.submissionId,
                  assignmentId |-> gradeData.assignmentId,
                  totalScore |-> gradeData.totalScore,
                  maxScore |-> gradeData.maxScore,
                  isPostedToClassroom |-> gradeData.isPostedToClassroom,
                  gradedAt |-> IF existing = <<>> THEN now ELSE existing[1].gradedAt,
                  postedAt |-> IF existing = <<>> THEN 0 ELSE existing[1].postedAt]
    IN  [grade |-> grade, grades |-> gradesSet(grades, grade)]

\* upsertGrade(gradeData): the grade it returns and the map it leaves; uuid is
\* what randomUUID() and now what new Date() would give; postedAt 0 is unset
upsertGrade(gradeData, uuid, now) ==
    LET existing == getGrade(gradeData.submissionId)
        grade == [id |-> IF existing = <<>> THEN uuid ELSE existing[1].id,
                  submissionId |-> gradeData.submissionId,
                  assignmentId |-> gradeData.assignmentId,
                  totalScore |-> gradeData.totalScore,
                  maxScore |-> gradeData.maxScore,
                  isPostedToClassroom |-> gradeData.isPostedToClassroom,
                  gradedAt |-> IF existing = <<>> THEN now ELSE existing[1].gradedAt,
                  postedAt |-> IF existing = <<>> THEN 0 ELSE existing[1].postedAt]
    IN  [grade |-> grade, grades |-> gradesSet(grades, grade)]

\* markGradeAsPosted(gradeId): the map it leaves
markGradeAsPosted(gradeId, now) ==
    [i \in 1..Len(grades) |->
        IF grades[i].id = gradeId
        THEN [grades[i] EXCEPT !.isPostedToClassroom = TRUE, !.postedAt = now]
        ELSE grades[i]]

\* what the hosted model's call gives: an API error, a body that is not
\* JSON, or a JSON object with or without a numeric totalScore
AiOutcomes ==
    {[kind |-> k, hasTotal |-> FALSE, totalScore |-> 0] : k \in {"apiError", "unparsable", "json"}}
        \cup {[kind |-> "json", hasTotal |-> TRUE, totalScore |-> t] : t \in {-5, 0, 7, 1000}}

\* the sanitising without the clamp: totalScore: result.totalScore || 0
gradeSubmission_Unclamped(ai, maxTotalPoints) ==
    IF ai.kind # "json" THEN [threw |-> TRUE, totalScore |-> 0, maxScore |-> 0]
    ELSE [threw |-> FALSE,
          totalScore |-> IF ai.hasTotal THEN ai.totalScore ELSE 0,
          maxScore |-> maxTotalPoints]

\* gradeSubmission(request): throws when the call or JSON.parse throws, else
\* Math.max(0, Math.min(maxTotalPoints, result.totalScore || 0))
gradeSubmission(ai, maxTotalPoints) ==
    IF ai.kind # "json" THEN [threw |-> TRUE, totalScore |-> 0, maxScore |-> 0]
    ELSE LET raw == IF ai.hasTotal THEN ai.totalScore ELSE 0
             capped == IF raw < maxTotalPoints THEN raw ELSE maxTotalPoints
         IN  [threw |-> FALSE,
              totalScore |-> IF capped > 0 THEN capped ELSE 0,
              maxScore |-> maxTotalPoints]

\* assignment.maxPoints || 100
maxTotalPointsOf(assignment) ==
    IF assignment.maxPoints.isNull \/ assignment.maxPoints.v = 0
    THEN 100 ELSE assignment.maxPoints.v

\* what a handler leaves: the status it answers with, the grade in the
\* answer's body (<<>> for none), the grades map and the submissions map
Outcome(status, body, map, subs) ==
    [status |-> status, body |-> body, grades |-> map, submissions |-> subs]

\* storage.updateSubmissionStatus(id, status): MemStorage defines no such
\* method, so the call throws a TypeError and the submissions map stays
updateSubmissionStatus(id, status) ==
    [threw |-> TRUE, submissions |-> storedSubmissions]

\* the grading handler that stores a zero grade when the hosted model fails
gradeRoute_FallbackGrade(submissionId, drive, ai, uuid, now) ==
    LET submission == getSubmission(submissionId)
    IN  IF submission = <<>> THEN Outcome(404, <<>>, grades, storedSubmissions)
        ELSE
        LET assignment == getAssignment(submission[1].assignmentId)
        IN  IF assignment = <<>> THEN Outcome(404, <<>>, grades, storedSubmissions)
            ELSE IF getGradingCriteria(assignment[1].id) = <<>>
            THEN Outcome(400, <<>>, grades, storedSubmissions)
            ELSE IF submission[1].attachedFiles <= 1 /\ drive = "error"
            THEN Outcome(500, <<>>, grades, storedSubmissions)
            ELSE
            LET gradingResult == gradeSubmission(ai, maxTotalPointsOf(assignment[1]))
            IN  IF gradingResult.threw
                THEN Outcome(500, <<>>,
                             upsertGrade([submissionId |-> submission[1].id,
                                          assignmentId |-> assignment[1].id,
                                          totalScore |-> 0,
                                          maxScore |-> maxTotalPointsOf(assignment[1]),
                                          isPostedToClassroom |-> FALSE], uuid, now).grades,
                             storedSubmissions)
                ELSE
                LET saved == upsertGrade([submissionId |-> submission[1].id,
                                          assignmentId |-> assignment[1].id,
                                          totalScore |-> gradingResult.totalScore,
                                          maxScore |-> gradingResult.maxScore,
                                          isPostedToClassroom |-> FALSE], uuid, now)
                    marked == updateSubmissionStatus(submission[1].id, "graded")
                IN  IF marked.threw
                    THEN Outcome(500, <<>>, saved.grades, storedSubmissions)
                    ELSE Outcome(200, <<saved.grade>>, saved.grades, marked.submissions)

\* POST /api/submissions/:submissionId/grade, from its first line to the
\* answer; drive and ai are what the file download and the hosted model give
gradeRoute(submissionId, drive, ai, uuid, now) ==
    LET submission == getSubmission(submissionId)
    IN  IF submission = <<>> THEN Outcome(404, <<>>, grades, storedSubmissions)
        ELSE
        LET assignment == getAssignment(submission[1].assignmentId)
        IN  IF assignment = <<>> THEN Outcome(404, <<>>, grades, storedSubmissions)
            ELSE IF getGradingCriteria(assignment[1].id) = <<>>
            THEN Outcome(400, <<>>, grades, storedSubmissions)
            ELSE IF submission[1].attachedFiles <= 1 /\ drive = "error"
            THEN Outcome(500, <<>>, grades, storedSubmissions)
            ELSE
            LET gradingResult == gradeSubmission(ai, maxTotalPointsOf(assignment[1]))
            IN  IF gradingResult.threw THEN Outcome(500, <<>>, grades, storedSubmissions)
                ELSE
                LET saved == upsertGrade([submissionId |-> submission[1].id,
                                          assignmentId |-> assignment[1].id,
                                          totalScore |-> gradingResult.totalScore,
                                          maxScore |-> gradingResult.maxScore,
                                          isPostedToClassroom |-> FALSE], uuid, now)
                    marked == updateSubmissionStatus(submission[1].id, "graded")
                IN  IF marked.threw
                    THEN Outcome(500, <<>>, saved.grades, storedSubmissions)
                    ELSE Outcome(200, <<saved.grade>>, saved.grades, marked.submissions)

\* POST /api/grades/:gradeId/post; classroom is what postGrade gives
postRoute(gradeId, classroom, now) ==
    LET grade == getGrade(gradeId)
    IN  IF grade = <<>> THEN Outcome(404, <<>>, grades, storedSubmissions)
        ELSE IF getSubmission(grade[1].submissionId) = <<>>
        THEN Outcome(404, <<>>, grades, storedSubmissions)
        ELSE IF classroom = "error" THEN Outcome(500, <<>>, grades, storedSubmissions)
        ELSE Outcome(200, <<>>, markGradeAsPosted(grade[1].id, now), storedSubmissions)

\* the percentage of a stored grade: (g.totalScore / g.maxScore) * 100
scorePercent(g) == NumScale(NumDiv(g.totalScore, g.maxScore), 100, 1)

\* grades.filter(g => g.totalScore && g.maxScore).map(...)
analyticsScores(gradesOfAssignment) ==
    LET kept == SelectSeq(gradesOfAssignment,
                          LAMBDA g : g.totalScore # 0 /\ g.maxScore # 0)
    IN  [i \in 1..Len(kept) |-> scorePercent(kept[i])]

\* the five counters of scoreRanges after scores.forEach, in the order
\* 90-100, 80-89, 70-79, 60-69, 0-59
scoreRangesOf(scores) ==
    <<Len(SelectSeq(scores, LAMBDA x : NumGE(x, Fin(90, 1)))),
      Len(SelectSeq(scores, LAMBDA x : ~NumGE(x, Fin(90, 1)) /\ NumGE(x, Fin(80, 1)))),
      Len(SelectSeq(scores, LAMBDA x : ~NumGE(x, Fin(80, 1)) /\ NumGE(x, Fin(70, 1)))),
      Len(SelectSeq(scores, LAMBDA x : ~NumGE(x, Fin(70, 1)) /\ NumGE(x, Fin(60, 1)))),
      Len(SelectSeq(scores, LAMBDA x : ~NumGE(x, Fin(60, 1))))>>

\* GET /api/assignments/:id/analytics: the statistics and the score
\* distribution of its answer
analyticsRoute(assignmentId) ==
    LET assignment == getAssignment(assignmentId)
        submissionsOf == {s \in DOMAIN storedSubmissions :
                            storedSubmissions[s].assignmentId = assignmentId}
        gradesOf == getGrades(assignmentId)
        scores == analyticsScores(gradesOf)
    IN  IF assignment = <<>> THEN Outcome(404, <<>>, grades, storedSubmissions)
        ELSE Outcome(200,
                     <<[totalSubmissions |-> Cardinality(submissionsOf),
                        gradedSubmissions |-> Len(gradesOf),
                        pendingSubmissions |->
                            Cardinality({s \in submissionsOf : ~storedSubmissions[s].isGraded}),
                        scoreDistribution |-> scoreRangesOf(scores)]>>,
                     grades, storedSubmissions)

\* the request served last: its route and parameter, whether the outside
\* service it calls (the hosted model, the classroom) fails when called, and
\* the answer
NoCall ==
    [route |-> "none", param |-> "", serviceFails |-> FALSE, status |-> 0, body |-> <<>>]

Served(route, param, serviceFails, out) ==
    /\ clock < MaxRequests
    /\ clock' = clock + 1
    /\ grades' = out.grades
    /\ storedSubmissions' = out.submissions
    /\ lastCall' = [route |-> route, param |-> param, serviceFails |-> serviceFails,
                status |-> out.status, body |-> out.body]
    /\ UNCHANGED <<assignments, gradingCriteria, criteriaCalls>>

GradeSubmissionRequest ==
    \E submissionId \in RequestIds, drive \in {"ok", "error"}, ai \in AiOutcomes :
        /\ Served("POST /api/submissions/:submissionId/grade", submissionId,
                  ai.kind # "json",
                  gradeRoute(submissionId, drive, ai, Uuid(Len(grades) + 1), clock + 1))
        /\ UNCHANGED <<clientVars, req, res, handlerRan>>

\* the grade ids handed out so far are what a client can have seen
PostGradeRequest ==
    \E gradeId \in RequestIds \cup {grades[i].id : i \in 1..Len(grades)},
       classroom \in {"ok", "error"} :
        /\ Served("POST /api/grades/:gradeId/post", gradeId, classroom = "error",
                  postRoute(gradeId, classroom, clock + 1))
        /\ UNCHANGED <<clientVars, req, res, handlerRan>>

AnalyticsRequest ==
    \E assignmentId \in {"a1", "a9"} :
        /\ Served("GET /api/assignments/:id/analytics", assignmentId, FALSE,
                  analyticsRoute(assignmentId))
        /\ UNCHANGED <<clientVars, req, res, handlerRan>>

NextGrading ==
    \/ GradeSubmissionRequest
    \/ PostGradeRequest
    \/ AnalyticsRequest

(***************************************************************************)
(* POST /api/assignments/:assignmentId/criteria, step by step: a handler   *)
(* runs up to its next await, where another request's handler may run      *)
(***************************************************************************)
\* longest criteria array a request posts
MaxCriteria == 2

\* the requests that can be in progress at a time
CriteriaCalls == {"r1", "r2"}

\* the elements a posted array can hold: two that insertGradingCriteriaSchema
\* accepts and one it rejects (no name)
CriteriaElements ==
    {[name |-> "clarity", valid |-> TRUE],
     [name |-> "depth", valid |-> TRUE],
     [name |-> "", valid |-> FALSE]}

\* req.body.criteria: an array of elements, or something that is not an array
CriteriaArrays ==
    UNION {[1..n -> CriteriaElements] : n \in 0..MaxCriteria}

CriteriaBodies ==
    {[isArray |-> TRUE, criteria |-> a] : a \in CriteriaArrays}
        \cup {[isArray |-> FALSE, criteria |-> <<>>]}

\* a stored criterion; its id is a randomUUID(), told apart by the call that
\* drew it and the element it was drawn for
Criterion(call, n, assignmentId, name) ==
    [id |-> [call |-> call, n |-> n], assignmentId |-> assignmentId, name |-> name]

\* clearGradingCriteria(assignmentId): the map it leaves
clearGradingCriteria(assignmentId) ==
    SelectSeq(gradingCriteria, LAMBDA c : c.assignmentId # assignmentId)

\* upsertGradingCriteria(criteriaData): the map it leaves
upsertGradingCriteria(criterion) == Append(gradingCriteria, criterion)

\* insertGradingCriteriaSchema.parse({...criteriaData, assignmentId}): throws
\* on an element the schema rejects
parseCriteria(criteriaData) == [threw |-> ~criteriaData.valid]

\* a handler's position: pc is "idle", "loop" (before loop element `next`)
\* or "done"; before is what the assignment's criteria were when the
\* request arrived
NoCriteriaCall ==
    [pc |-> "idle", assignmentId |-> "", body |-> <<>>, next |-> 0,
     status |-> 0, before |-> <<>>]

\* a request arrives: the handler runs to its first await, the one on
\* clearGradingCriteria (lines 503-509)
CriteriaRequest(r, assignmentId, body) ==
    /\ criteriaCalls[r].pc = "idle"
    /\ IF ~body.isArray
       THEN /\ criteriaCalls' = [criteriaCalls EXCEPT ![r] =
                   [pc |-> "done", assignmentId |-> assignmentId, body |-> <<>>,
                    next |-> 0, status |-> 400,
                    before |-> getGradingCriteria(assignmentId)]]
            /\ gradingCriteria' = gradingCriteria
       ELSE /\ criteriaCalls' = [criteriaCalls EXCEPT ![r] =
                   [pc |-> "loop", assignmentId |-> assignmentId,
                    body |-> body.criteria, next |-> 1, status |-> 0,
                    before |-> getGradingCriteria(assignmentId)]]
            /\ gradingCriteria' = clearGradingCriteria(assignmentId)
    /\ UNCHANGED <<clientVars, req, res, handlerRan,
                   grades, storedSubmissions, assignments, lastCall, clock>>

\* the handler resumes after an await: it validates and saves the next
\* element and awaits again, or answers 500 from the catch block if the
\* element is rejected, or answers with the saved criteria after the last
CriteriaResume(r) ==
    LET call == criteriaCalls[r]
    IN  /\ call.pc = "loop"
        /\ IF call.next > Len(call.body)
           THEN /\ criteriaCalls' = [criteriaCalls EXCEPT ![r].pc = "done", ![r].status = 200]
                /\ gradingCriteria' = gradingCriteria
           ELSE IF parseCriteria(call.body[call.next]).threw
           THEN /\ criteriaCalls' = [criteriaCalls EXCEPT ![r].pc = "done", ![r].status = 500]
                /\ gradingCriteria' = gradingCriteria
           ELSE /\ criteriaCalls' = [criteriaCalls EXCEPT ![r].next = @ + 1]
                /\ gradingCriteria' =
                      upsertGradingCriteria(Criterion(r, call.next, call.assignmentId,
                                                     call.body[call.next].name))
        /\ UNCHANGED <<clientVars, req, res, handlerRan,
                       grades, storedSubmissions, assignments, lastCall, clock>>

NextCriteria ==
    \/ \E r \in CriteriaCalls, assignmentId \in {"a1", "a2"}, body \in CriteriaBodies :
          CriteriaRequest(r, assignmentId, body)
    \/ \E r \in CriteriaCalls : CriteriaResume(r)

\* no grade is stored and no request has been served
StoreUnused ==
    /\ criteriaCalls = [r \in CriteriaCalls |-> NoCriteriaCall]
    /\ grades = <<>>
    /\ lastCall = NoCall
    /\ clock = 0

\* the maps of a server that is not part of the behaviour
StoreIdle ==
    /\ StoreUnused
    /\ storedSubmissions = SyncedSubmissions
    /\ assignments = [a \in {"a1"} |-> [id |-> a, maxPoints |-> Null]]
    /\ gradingCriteria = <<>>

(***************************************************************************)
(* The server: registerRoutes of routes.ts behind isAuthenticated           *)
(***************************************************************************)
\* the routes registerRoutes registers, as "METHOD path"
Routes ==
    {"GET /api/auth/user",
     "GET /api/dashboard/stats",
     "GET /api/dashboard/analytics",
     "GET /api/assignments/:id/analytics",
     "POST /api/classrooms/sync",
     "GET /api/classrooms",
     "GET /api/classrooms/:id",
     "GET /api/assignments/:assignmentId/submissions",
     "GET /api/submissions/:submissionId/content",
     "GET /api/submissions/:submissionId/grade",
     "GET /api/assignments/:assignmentId/criteria",
     "POST /api/assignments/:assignmentId/criteria",
     "POST /api/assignments/:id/submissions/mark-pending",
     "POST /api/submissions/:submissionId/grade",
     "GET /api/files/:fileId/preview",
     "GET /api/files/:fileId/download",
     "GET /api/submissions/:submissionId/files",
     "GET /api/assignments/:assignmentId/files",
     "POST /api/grades/:gradeId/post",
     "GET /api/grades/pending"}

\* the handlers that answer 404 when the record they look up is missing
RoutesWithNotFound ==
    {"GET /api/assignments/:id/analytics",
     "GET /api/classrooms/:id",
     "GET /api/submissions/:submissionId/content",
     "GET /api/submissions/:submissionId/grade",
     "POST /api/submissions/:submissionId/grade",
     "GET /api/submissions/:submissionId/files",
     "GET /api/assignments/:assignmentId/files",
     "POST /api/grades/:gradeId/post"}

\* the handlers that answer 400 to a request body they do not accept
RoutesWithBadRequest ==
    {"POST /api/assignments/:assignmentId/criteria",
     "POST /api/assignments/:id/submissions/mark-pending",
     "POST /api/submissions/:submissionId/grade"}

\* the statuses the route's handler can answer with: 200 from res.json or
\* res.send, 500 from its catch block, and its early returns
handlerStatuses(route) ==
    {200, 500}
        \cup (IF route \in RoutesWithNotFound THEN {404} ELSE {})
        \cup (IF route \in RoutesWithBadRequest THEN {400} ELSE {})

\* the grade-posting route registered without the middleware
routeMiddleware_UnprotectedGradePost(route) ==
    IF route = "POST /api/grades/:gradeId/post" THEN <<>> ELSE <<"isAuthenticated">>

\* the middleware each app.get / app.post call puts before the route's handler
routeMiddleware(route) == <<"isAuthenticated">>

\* isAuthenticated: next() when req.isAuthenticated(), else status 401
isAuthenticated(request) == IF request.authenticated THEN "next" ELSE "401"

NoRequest == [route |-> "none", authenticated |-> FALSE, stage |-> 0]

NoResponse == [status |-> 0]

\* a request for the route arrives; its session is authenticated or not
Request(route, authenticated) ==
    /\ req = NoRequest
    /\ req' = [route |-> route, authenticated |-> authenticated, stage |-> 1]
    /\ res' = NoResponse
    /\ handlerRan' = FALSE
    /\ UNCHANGED <<clientVars, storeVars>>

\* express calls the next middleware of the route's chain
RunMiddleware ==
    /\ req # NoRequest
    /\ res.status = 0
    /\ req.stage <= Len(routeMiddleware(req.route))
    /\ routeMiddleware(req.route)[req.stage] = "isAuthenticated"
    /\ IF isAuthenticated(req) = "next"
       THEN /\ req' = [req EXCEPT !.stage = @ + 1]
            /\ res' = res
       ELSE /\ req' = req
            /\ res' = [status |-> 401]
    /\ UNCHANGED <<handlerRan, clientVars, storeVars>>

\* the chain is through: express calls the route's handler, which answers
RunHandler ==
    /\ req # NoRequest
    /\ res.status = 0
    /\ req.stage = Len(routeMiddleware(req.route)) + 1
    /\ handlerRan' = TRUE
    /\ \E status \in handlerStatuses(req.route) : res' = [status |-> status]
    /\ UNCHANGED <<req, clientVars, storeVars>>

\* the response has been sent and the server waits for the next request
Close ==
    /\ req # NoRequest
    /\ res.status # 0
    /\ req' = NoRequest
    /\ res' = NoResponse
    /\ handlerRan' = FALSE
    /\ UNCHANGED <<clientVars, storeVars>>

NextServer ==
    \/ \E route \in Routes, authenticated \in BOOLEAN : Request(route, authenticated)
    \/ RunMiddleware
    \/ RunHandler
    \/ Close

\* the server is up and idle; the component does not take part
InitServer ==
    /\ submissions = <<>>
    /\ analytics = <<>>
    /\ locals = NoLocals
    /\ view = "unmounted"
    /\ overall = ModalClosed
    /\ req = NoRequest
    /\ res = NoResponse
    /\ handlerRan = FALSE
    /\ StoreIdle

SpecServer == InitServer /\ [][NextServer]_vars

\* the store after a classroom sync: one assignment, whose maxPoints is what
\* the classroom gave, its two submissions, and the grading criteria of the
\* assignment either not set yet or set
InitGrading ==
    /\ submissions = <<>>
    /\ analytics = <<>>
    /\ locals = NoLocals
    /\ view = "unmounted"
    /\ overall = ModalClosed
    /\ req = NoRequest
    /\ res = NoResponse
    /\ handlerRan = FALSE
    /\ StoreUnused
    /\ storedSubmissions = SyncedSubmissions
    /\ \E maxPoints \in MaxPointsValues :
          assignments = [a \in {"a1"} |-> [id |-> a, maxPoints |-> maxPoints]]
    /\ gradingCriteria \in
          {<<>>, <<Criterion("earlier", 1, "a1", "clarity")>>}

SpecGrading == InitGrading /\ [][NextGrading]_vars

\* the store after a sync and an earlier setting of criteria: each of two
\* assignments has one criterion, or none has been set yet
InitCriteria ==
    /\ submissions = <<>>
    /\ analytics = <<>>
    /\ locals = NoLocals
    /\ view = "unmounted"
    /\ overall = ModalClosed
    /\ req = NoRequest
    /\ res = NoResponse
    /\ handlerRan = FALSE
    /\ StoreUnused
    /\ storedSubmissions = SyncedSubmissions
    /\ assignments = [a \in {"a1", "a2"} |-> [id |-> a, maxPoints |-> Null]]
    /\ gradingCriteria \in
          {<<>>, <<Criterion("earlier", 1, "a1", "style"),
                   Criterion("earlier", 2, "a2", "style")>>}

SpecCriteria == InitCriteria /\ [][NextCriteria]_vars

(***************************************************************************)
(* The component: one render with the given props.submissions              *)
(***************************************************************************)
\* analytics is <<>> for null and <<report>> otherwise; view is what the
\* component returns: the empty state or the charts
ResultsAnalytics(props) ==
    LET graded == gradedSubmissions(props)
    IN  /\ submissions' = submissionsAfter(props)
        /\ IF Len(graded) = 0
           THEN /\ analytics' = <<>>
                /\ locals' = NoLocals
                /\ view' = "empty"
           ELSE \E rank \in SortOrders(percentagesOf(mappedScores(graded)), "desc") :
                  LET scores == sortedScores(mappedScores(graded), rank)
                      percentages == percentagesOf(scores)
                  IN  \E asc \in SortOrders(percentages, "asc") :
                        LET median == getMedian(percentages, asc)
                            q1 == getPercentile(percentages, 25, asc)
                            q3 == getPercentile(percentages, 75, asc)
                        IN  /\ analytics' = <<reportOf(props, graded, scores, median, q1, q3)>>
                            /\ locals' = localsOf(median, q1, q3)
                            /\ view' = "report"

\* a submission record as the submissions query delivers it; ids and student
\* names are the record's position in the list
Submission(i, in) ==
    [id |-> i, student |-> [name |-> i], isGraded |-> in.isGraded, grade |-> in.grade]

\* the submissions lists of at most maxLen records drawn from inputs
SubmissionLists(inputs, maxLen) ==
    UNION {{[i \in 1..m |-> Submission(i, f[i])] : f \in [1..m -> inputs]} : m \in 0..maxLen}

\* the component is mounted and renders with the submissions it was given
Render ==
    /\ view = "unmounted"
    /\ ResultsAnalytics(submissions)
    /\ UNCHANGED <<overall, serverVars>>

\* the parent holds a submissions list; the component has not rendered yet
Init ==
    /\ submissions \in SubmissionLists(SubmissionInputs, MaxSubs)
    /\ analytics = <<>>
    /\ locals = NoLocals
    /\ view = "unmounted"
    /\ overall = ModalClosed
    /\ req = NoRequest
    /\ res = NoResponse
    /\ handlerRan = FALSE
    /\ StoreIdle

Next == Render

Spec == Init /\ [][Next]_vars

\* the same, for longer lists in which every grade has a positive maxScore
InitWellFormed ==
    /\ submissions \in SubmissionLists(WellFormedInputs, MaxGraded)
    /\ analytics = <<>>
    /\ locals = NoLocals
    /\ view = "unmounted"
    /\ overall = ModalClosed
    /\ req = NoRequest
    /\ res = NoResponse
    /\ handlerRan = FALSE
    /\ StoreIdle

SpecWellFormed == InitWellFormed /\ [][Next]_vars

\* the same, for well-formed grades of odd and even tenths
InitMixedTenths ==
    /\ submissions \in SubmissionLists(MixedTenthInputs, MaxMixed)
    /\ analytics = <<>>
    /\ locals = NoLocals
    /\ view = "unmounted"
    /\ overall = ModalClosed
    /\ req = NoRequest
    /\ res = NoResponse
    /\ handlerRan = FALSE
    /\ StoreIdle

SpecMixedTenths == InitMixedTenths /\ [][Next]_vars

\* the parent opens the results modal with the submissions it holds
RenderModal ==
    /\ overall = ModalClosed
    /\ OverallResultsModal(submissions)
    /\ UNCHANGED <<submissions, analytics, view, locals, serverVars>>

NextSurfaces ==
    \/ Render
    \/ RenderModal

\* the parent holds a list of well-formed records; neither surface is rendered
InitSurfaces ==
    /\ submissions \in SubmissionLists(WellFormedInputs, MaxShown)
    /\ analytics = <<>>
    /\ locals = NoLocals
    /\ view = "unmounted"
    /\ overall = ModalClosed
    /\ req = NoRequest
    /\ res = NoResponse
    /\ handlerRan = FALSE
    /\ StoreIdle

SpecSurfaces == InitSurfaces /\ [][NextSurfaces]_vars

(***************************************************************************)
(* Properties                                                              *)
(***************************************************************************)
Rendered == view # "unmounted"

HasReport == analytics # <<>>

Report == analytics[1]

\* the records the engine's filter lets take part
Participating == {i \in 1..Len(submissions) :
                    submissions[i].isGraded /\ submissions[i].grade.present}

\* a finite percentage of the report in tenths of a percent (an integer,
\* since reported percentages are rounded to one decimal)
Tenths(p) == (p.n * 10) \div p.d

RankedIdx == 1..Len(Report.scores)

RECURSIVE SumCounts(_, _)
SumCounts(buckets, m) ==
    IF m = 0 THEN 0 ELSE buckets[m].count + SumCounts(buckets, m - 1)

\* C1: when a participating record has maxScore <= 0 the engine returns no
\* report: the batch is rejected and nothing is rendered as statistics
C1_RejectsNonPositiveMaxScore ==
    (Rendered /\ \E i \in Participating : submissions[i].grade.maxScore <= 0)
        => (analytics = <<>> /\ view = "rejected")

\* C2: in every report the counts of the ten histogram buckets sum to
\* totalGraded
C2_RangesSumToTotalGraded ==
    HasReport => SumCounts(Report.ranges, 10) = Report.totalGraded

\* C3: the last histogram bucket counts every ranked record whose percentage
\* lies in [90, 100], the value 100 included
C3_HundredInLastBucket ==
    HasReport =>
        Report.ranges[10].count =
            Cardinality({i \in RankedIdx :
                /\ IsFin(Report.scores[i].percentage)
                /\ Tenths(Report.scores[i].percentage) >= 900
                /\ Tenths(Report.scores[i].percentage) <= 1000})

\* the number of ranked records the five letter-grade buckets count
GradeBucketTotal ==
    Report.gradeDistribution.A + Report.gradeDistribution.B
        + Report.gradeDistribution.C + Report.gradeDistribution.D
        + Report.gradeDistribution.F

\* C4: in every report the five gradeDistribution counts sum to totalGraded
\* (every graded record falls in exactly one letter bucket)
C4_GradeDistributionSumsToTotalGraded ==
    HasReport => GradeBucketTotal = Report.totalGraded

\* the letter the fixed thresholds give a reported percentage
LetterOfReported(p) ==
    IF ~IsFin(p) THEN "none"
    ELSE IF Tenths(p) >= 900 THEN "A"
    ELSE IF Tenths(p) >= 800 THEN "B"
    ELSE IF Tenths(p) >= 700 THEN "C"
    ELSE IF Tenths(p) >= 600 THEN "D"
    ELSE "F"

\* C5: every ranked record's letter grade is the letter the thresholds give
\* its reported percentage, and for every letter the number of ranked records
\* with that letter is the gradeDistribution count of the letter
C5_LetterGradeMatchesReportedPercentage ==
    HasReport =>
        /\ \A i \in RankedIdx :
              Report.scores[i].grade = LetterOfReported(Report.scores[i].percentage)
        /\ \A L \in {"A", "B", "C", "D", "F"} :
              Cardinality({i \in RankedIdx : Report.scores[i].grade = L})
                  = Report.gradeDistribution[L]

\* C6: when no record of the input is graded the engine returns null and the
\* component renders the empty state
C6_NoGradedGivesNull ==
    (Rendered /\ Participating = {}) => (analytics = <<>> /\ view = "empty")

\* C6 witness: a rendered, non-empty input without any graded record
C6_Witness ==
    /\ Rendered
    /\ Len(submissions) >= 2
    /\ Participating = {}
    /\ \E i \in 1..Len(submissions) : submissions[i].grade.present
    /\ \E i \in 1..Len(submissions) : submissions[i].isGraded

ReportedTotalGraded == IF HasReport THEN Report.totalGraded ELSE 0

\* C7 as stated: totalGraded is the number of input records that carry a grade
C7_GradePresentParticipates ==
    Rendered =>
        ReportedTotalGraded
            = Cardinality({i \in 1..Len(submissions) : submissions[i].grade.present})

\* C7 amended: a record takes part exactly when it is flagged isGraded and
\* carries a grade: totalGraded counts those records, the ranked list holds
\* exactly those records, once each, the outliers and every bucket draw from
\* them only, and all records count in totalSubmissions
C7_FlaggedAndGradedParticipates ==
    Rendered =>
        /\ ReportedTotalGraded = Cardinality(Participating)
        /\ HasReport =>
            /\ Len(Report.scores) = Cardinality(Participating)
            /\ {Report.scores[i].studentName : i \in RankedIdx}
                  = {submissions[i].student.name : i \in Participating}
            /\ \A i \in 1..Len(Report.outliers) :
                  \E j \in RankedIdx : Report.outliers[i] = Report.scores[j]
            /\ GradeBucketTotal <= Cardinality(Participating)
            /\ SumCounts(Report.ranges, 10) <= Cardinality(Participating)
            /\ Report.totalSubmissions = Len(submissions)

\* C7 witness: a report over an input that also holds a record carrying a
\* grade without the isGraded flag and a flagged record without a grade
C7_Witness ==
    /\ HasReport
    /\ \E i \in 1..Len(submissions) :
          submissions[i].grade.present /\ ~submissions[i].isGraded
    /\ \E i \in 1..Len(submissions) :
          ~submissions[i].grade.present /\ submissions[i].isGraded

\* C8: every percentage of the ranked list lies in [0, 100]
C8_PercentagesInRange ==
    HasReport =>
        \A i \in RankedIdx :
            /\ NumGE(Report.scores[i].percentage, Fin(0, 1))
            /\ NumGE(Fin(100, 1), Report.scores[i].percentage)

\* the reported percentages in tenths of a percent, in ranked order
Vals == [i \in RankedIdx |-> Tenths(Report.scores[i].percentage)]

\* the order statistic of rank k (k = 0 is the least) of the reported
\* percentages, by counting
OrderStat(k) ==
    CHOOSE v \in {Vals[i] : i \in RankedIdx} :
        /\ Cardinality({i \in RankedIdx : Vals[i] < v}) <= k
        /\ k < Cardinality({i \in RankedIdx : Vals[i] <= v})

\* 100 times the p-th percentile of the reported percentages, in tenths:
\* the order statistic at index p/100 * (n - 1) when that is an integer, else
\* the interpolation between its two neighbours weighted by the fraction
PercentileTimes100(p) ==
    LET m == p * (Len(Report.scores) - 1)
        lo == m \div 100
        fr == m % 100
    IN  IF fr = 0 THEN 100 * OrderStat(lo)
        ELSE (100 - fr) * OrderStat(lo) + fr * OrderStat(lo + 1)

\* 200 times the Tukey fences q1 - 1.5*(q3 - q1) and q3 + 1.5*(q3 - q1), in tenths
LowerFenceTimes200 ==
    2 * PercentileTimes100(25) - 3 * (PercentileTimes100(75) - PercentileTimes100(25))

UpperFenceTimes200 ==
    2 * PercentileTimes100(75) + 3 * (PercentileTimes100(75) - PercentileTimes100(25))

IsTukeyOutlier(i) ==
    \/ 200 * Vals[i] < LowerFenceTimes200
    \/ 200 * Vals[i] > UpperFenceTimes200

\* C9: the outliers list holds exactly the ranked records whose percentage is
\* strictly below q1 - 1.5*(q3-q1) or strictly above q3 + 1.5*(q3-q1), q1 and
\* q3 being the 25th and 75th percentiles of the reported percentages; a
\* record on a fence is not listed
C9_OutliersAreStrictlyOutsideFences ==
    HasReport =>
        /\ {Report.outliers[i] : i \in 1..Len(Report.outliers)}
              = {Report.scores[i] : i \in {j \in RankedIdx : IsTukeyOutlier(j)}}
        /\ Len(Report.outliers) = Cardinality({j \in RankedIdx : IsTukeyOutlier(j)})

\* C9 witness: a report with an outlier and with a record exactly on a fence
C9_Witness ==
    /\ HasReport
    /\ Report.outliers # <<>>
    /\ \E i \in RankedIdx :
          200 * Vals[i] = LowerFenceTimes200 \/ 200 * Vals[i] = UpperFenceTimes200

\* C10: for p in {25, 75} getPercentile returns the order statistic at index
\* p/100 * (n - 1) of the ascending order when the index is an integer, and
\* otherwise the interpolation between the floor and ceil order statistics
\* weighted by the fractional part of the index
C10_PercentileInterpolates ==
    HasReport =>
        /\ IsFin(locals.q1) /\ IsFin(locals.q3)
        /\ locals.q1.n * 1000 = PercentileTimes100(25) * locals.q1.d
        /\ locals.q3.n * 1000 = PercentileTimes100(75) * locals.q3.d

\* C10 witness: four graded records whose two lowest and two highest
\* percentages differ, so q1 and q3 are both proper interpolations
C10_Witness ==
    /\ HasReport
    /\ Len(Report.scores) = 4
    /\ OrderStat(0) < OrderStat(1)
    /\ OrderStat(2) < OrderStat(3)

\* some record ranks above a record that precedes it in the input: the
\* ranking sort moved a record
RankingMovedARecord ==
    \E i, j \in RankedIdx :
        i < j /\ Report.scores[i].studentName > Report.scores[j].studentName

\* C11: the reported median is the median of the reported percentages to one
\* decimal, whatever the input order: the middle order statistic for an odd
\* count, the mean of the two central order statistics for an even count (a
\* mean half-way between two tenths is reported as a neighbouring tenth)
C11_MedianOfReportedPercentages ==
    HasReport =>
        /\ IsFin(Report.median)
        /\ 10 % Report.median.d = 0
        /\ LET n == Len(Report.scores)
               t == Tenths(Report.median)
           IN  IF n % 2 = 1
               THEN t = OrderStat((n - 1) \div 2)
               ELSE 2 * t - (OrderStat(n \div 2 - 1) + OrderStat(n \div 2))
                        \in {-1, 0, 1}

\* C11 witness: an even number of ranked records, passed in another order
\* than the ranked one, whose two central percentages have a mean half-way
\* between two tenths
C11_Witness ==
    /\ HasReport
    /\ Len(Report.scores) = 4
    /\ (OrderStat(1) + OrderStat(2)) % 2 = 1
    /\ RankingMovedARecord

Abs(x) == IF x < 0 THEN -x ELSE x

\* C12: every graded record with a positive maxScore is ranked with its
\* score and maxScore and with the percentage score / maxScore * 100 to the
\* nearest tenth
C12_PercentageIsScoreOverMaxToNearestTenth ==
    HasReport =>
        \A j \in Participating :
            submissions[j].grade.maxScore > 0 =>
                \E i \in RankedIdx :
                    LET r == Report.scores[i]
                    IN  /\ r.studentName = submissions[j].student.name
                        /\ r.score = submissions[j].grade.totalScore
                        /\ r.maxScore = submissions[j].grade.maxScore
                        /\ IsFin(r.percentage)
                        /\ 10 % r.percentage.d = 0
                        /\ 2 * Abs(1000 * r.score - Tenths(r.percentage) * r.maxScore)
                              <= r.maxScore

\* C12 witness: a report that ranks a record whose percentage is not a whole
\* number of tenths before rounding (2699 / 3000), next to a record whose
\* maxScore is not positive
C12_Witness ==
    /\ HasReport
    /\ \E j \in Participating :
          submissions[j].grade.totalScore = 2699 /\ submissions[j].grade.maxScore = 3000
    /\ \E j \in Participating : submissions[j].grade.maxScore <= 0

\* C13: the ranked list is a permutation of the graded records in which no
\* record has a lower percentage than a record ranked after it, and records
\* of equal percentage keep their input order
C13_RankedIsStableDescendingPermutation ==
    HasReport =>
        /\ Len(Report.scores) = Cardinality(Participating)
        /\ {Report.scores[i].studentName : i \in RankedIdx}
              = {submissions[j].student.name : j \in Participating}
        /\ \A i, j \in RankedIdx :
              i < j =>
                /\ ~NumLT(Report.scores[i].percentage, Report.scores[j].percentage)
                /\ NumEQ(Report.scores[i].percentage, Report.scores[j].percentage)
                      => Report.scores[i].studentName < Report.scores[j].studentName

\* C14: in every report min <= median <= max and min <= average <= max, on
\* the values as reported
C14_MedianAndAverageBetweenMinAndMax ==
    HasReport =>
        /\ NumGE(Report.median, Report.min)
        /\ NumGE(Report.max, Report.median)
        /\ NumGE(Report.average, Report.min)
        /\ NumGE(Report.max, Report.average)

\* C15: for every non-empty set of well-formed scores the computed (unrounded)
\* quartiles bracket the computed median: q1 <= median <= q3
C15_QuartilesBracketMedian ==
    HasReport =>
        /\ NumGE(locals.median, locals.q1)
        /\ NumGE(locals.q3, locals.median)

\* C15 witness: a report in which q1 < median < q3 strictly
C15_Witness ==
    /\ HasReport
    /\ NumGT(locals.median, locals.q1)
    /\ NumGT(locals.q3, locals.median)

\* all ranked records have the same reported percentage
AllPercentagesEqual == \A i \in RankedIdx : Vals[i] = Vals[1]

\* C16: when all percentages are equal to a value v (a single record
\* included) the report has stdDev 0, average, median, min and max equal to
\* v, q1 and q3 equal to v and no outliers
C16_ConstantScoreSet ==
    (HasReport /\ AllPercentagesEqual) =>
        LET v == Report.scores[1].percentage
        IN  /\ Report.stdDev = Fin(0, 1)
            /\ Report.average = v
            /\ Report.median = v
            /\ Report.min = v
            /\ Report.max = v
            /\ locals.q1 = v
            /\ locals.q3 = v
            /\ Report.outliers = <<>>

\* C16 witness: a report over five records of one and the same percentage
C16_Witness ==
    /\ HasReport
    /\ Len(Report.scores) = 5
    /\ AllPercentagesEqual

\* the ranked records whose percentage differs from q1
OffQ1 == {i \in RankedIdx : 100 * Vals[i] # PercentileTimes100(25)}

\* C17: when the IQR is zero (q1 = q3) the engine still returns a report and
\* its outliers are exactly the ranked records whose percentage differs from
\* q1
C17_ZeroIqrFlagsValuesOffQ1 ==
    (Rendered /\ Participating # {}) =>
        /\ HasReport
        /\ PercentileTimes100(25) = PercentileTimes100(75) =>
            /\ {Report.outliers[i] : i \in 1..Len(Report.outliers)}
                  = {Report.scores[i] : i \in OffQ1}
            /\ Len(Report.outliers) = Cardinality(OffQ1)

\* C17 witness: the percentages 10, 10, 10, 10, 95 with the record at 95 as
\* the only outlier
C17_Witness ==
    /\ HasReport
    /\ Len(Report.scores) = 5
    /\ OrderStat(0) = 100
    /\ OrderStat(3) = 100
    /\ OrderStat(4) = 950
    /\ Len(Report.outliers) = 1
    /\ Report.outliers[1].percentage = Fin(95, 1)

C20_DataRoutesRequireAuthentication ==
    /\ handlerRan => (req.route \in Routes /\ req.authenticated)
    /\ (req # NoRequest /\ ~req.authenticated /\ res.status # 0)
          => (res.status = 401 /\ ~handlerRan)

\* C20 witness: an unauthenticated request to the grading route has been
\* answered 401 and its handler has not run
C20_Witness ==
    /\ req.route = "POST /api/submissions/:submissionId/grade"
    /\ ~req.authenticated
    /\ res.status = 401
    /\ ~handlerRan

\* a step that serves a request of the route
Serves(route) == clock' = clock + 1 /\ lastCall'.route = route

\* C21: when the hosted-model call fails during a grading request, the
\* request ends with an error response and the stored grades and submissions
\* are what they were before the request
C21_FailedModelCallStoresNothing ==
    [][(Serves("POST /api/submissions/:submissionId/grade") /\ lastCall'.serviceFails)
          => /\ lastCall'.status >= 400
             /\ grades' = grades
             /\ storedSubmissions' = storedSubmissions]_vars

\* C21 witness: the model call failed in a grading request for s2 (whose file
\* errors do not end the request), with criteria set and a grade already
\* stored for s2: the request got as far as the model call
C21_Witness ==
    /\ lastCall.route = "POST /api/submissions/:submissionId/grade"
    /\ lastCall.serviceFails
    /\ lastCall.param = "s2"
    /\ lastCall.status = 500
    /\ gradingCriteria # <<>>
    /\ getGrade("s2") # <<>>

\* C22: posting a stored grade by its id, when the classroom call succeeds,
\* finds the grade and leaves it with isPostedToClassroom = true; the answer
\* is not 404
C22_PostByGradeIdMarksGradePosted ==
    [][(/\ Serves("POST /api/grades/:gradeId/post")
        /\ ~lastCall'.serviceFails
        /\ \E i \in 1..Len(grades) : grades[i].id = lastCall'.param)
          => /\ lastCall'.status = 200
             /\ \E i \in 1..Len(grades') :
                   grades'[i].id = lastCall'.param /\ grades'[i].isPostedToClassroom]_vars

\* C23: a grading request that stored a grade has also marked the submission
\* as graded and answered with the success response carrying the grade; a
\* request that answers with an error has stored no grade
C23_StoredGradeMeansMarkedAndAnswered ==
    [][Serves("POST /api/submissions/:submissionId/grade")
          => /\ grades' # grades =>
                  /\ lastCall'.status = 200
                  /\ \E i \in 1..Len(grades') :
                        /\ grades'[i].submissionId = lastCall'.param
                        /\ lastCall'.body = <<grades'[i]>>
                  /\ storedSubmissions'[lastCall'.param].status = "graded"
             /\ lastCall'.status >= 400 => grades' = grades]_vars

\* C24: for the same submissions list the two surfaces rank the same set of
\* records, and every record has the same letter grade in the ranked list of
\* ResultsAnalytics as in the ranking and CSV export of OverallResultsModal
C24_SurfacesAgreeOnLetterGrades ==
    (HasReport /\ overall.view = "results") =>
        /\ {Report.scores[i].studentName : i \in RankedIdx}
              = {overall.scores[j].studentName : j \in 1..Len(overall.scores)}
        /\ \A i \in RankedIdx, j \in 1..Len(overall.scores) :
              Report.scores[i].studentName = overall.scores[j].studentName
                  => Report.scores[i].grade = overall.scores[j].letterGrade

\* the names of the criteria stored for the assignment, in the map's order
StoredNames(assignmentId) ==
    LET stored == getGradingCriteria(assignmentId)
    IN  [i \in 1..Len(stored) |-> stored[i].name]

\* the names of a posted array
PostedNames(body) == [i \in 1..Len(body) |-> body[i].name]

\* C25: a criteria request that answers with an error leaves the criteria
\* stored for its assignment as they were when it arrived (stated for a
\* request that is alone, so that no other request accounts for a change)
C25_FailedCriteriaRequestChangesNothing ==
    \A r \in CriteriaCalls :
        (/\ criteriaCalls[r].pc = "done"
         /\ criteriaCalls[r].status >= 400
         /\ \A o \in CriteriaCalls \ {r} : criteriaCalls[o].pc = "idle")
            => getGradingCriteria(criteriaCalls[r].assignmentId) = criteriaCalls[r].before

C27_OneGradePerSubmission ==
    [][/\ \A i, j \in 1..Len(grades') :
              grades'[i].submissionId = grades'[j].submissionId => i = j
       /\ Len(grades') >= Len(grades)
       /\ \A i \in 1..Len(grades) :
              /\ grades'[i].id = grades[i].id
              /\ grades'[i].submissionId = grades[i].submissionId
              /\ grades'[i].gradedAt = grades[i].gradedAt
              /\ (Serves("POST /api/submissions/:submissionId/grade")
                    /\ grades[i].submissionId # lastCall'.param)
                     => grades'[i] = grades[i]]_vars

\* s1 was graded, then s2, then the grade of s1 was posted, then s1 was
\* graded again: the grade keeps the first gradedAt and its postedAt
C27_Witness ==
    /\ lastCall.route = "POST /api/submissions/:submissionId/grade"
    /\ lastCall.param = "s1"
    /\ Len(grades) = 2
    /\ \E i \in 1..Len(grades) :
          /\ grades[i].submissionId = "s1"
          /\ grades[i].gradedAt < grades[i].postedAt
          /\ grades[i].postedAt < clock
          /\ ~grades[i].isPostedToClassroom

\* the sum of the five counters of a score distribution
DistributionTotal(d) == d[1] + d[2] + d[3] + d[4] + d[5]

\* C28: in an analytics answer the five counts of scoreDistribution add up
\* to statistics.gradedSubmissions whenever every grade of the assignment
\* has a positive maxScore, grades with totalScore 0 included
C28_DistributionCountsEveryGrade ==
    (/\ lastCall.route = "GET /api/assignments/:id/analytics"
     /\ lastCall.status = 200
     /\ \A i \in 1..Len(grades) :
           grades[i].assignmentId = lastCall.param => grades[i].maxScore > 0)
        => DistributionTotal(lastCall.body[1].scoreDistribution)
              = lastCall.body[1].gradedSubmissions

\* C29: when the assignment's maxPoints is absent or not negative, every
\* grade the grading route stored has maxScore > 0 and a totalScore from 0
\* to maxScore
C29_StoredGradeWithinRange ==
    \A i \in 1..Len(grades) :
        LET maxPoints == assignments[grades[i].assignmentId].maxPoints
        IN  (maxPoints.isNull \/ maxPoints.v >= 0)
               => /\ grades[i].maxScore > 0
                  /\ 0 <= grades[i].totalScore
                  /\ grades[i].totalScore <= grades[i].maxScore

\* with maxPoints 10 one grade was cut down to maxScore and another raised
\* or defaulted to 0
C29_Witness ==
    /\ assignments["a1"].maxPoints = Points(10)
    /\ \E i, j \in 1..Len(grades) :
          /\ grades[i].totalScore = 10 /\ grades[i].maxScore = 10
          /\ grades[j].totalScore = 0 /\ grades[j].maxScore = 10

====
